---- MODULE Spec2Model ----
(***************************************************************************)
(* Model of pycheribuild/files/fixlinks.c: one pass over the entries of    *)
(* the working directory that replaces every symbolic link whose target    *)
(* starts with '/' by a link of the same name to "../.." + target.         *)
(*                                                                         *)
(* A string is a sequence of one-character strings.  The directory is a    *)
(* function from entry names to entries.  Every system call of main() is   *)
(* one action; a call that can fail has one action per result.             *)
(***************************************************************************)
EXTENDS FiniteSets, Integers, Sequences

VARIABLES
    fs,        \* the working directory: entry name -> entry
    pc,        \* position of main(): the call it is about to make
    dir,       \* DIR *dir: "unset", "NULL" or "open"
    pending,   \* entries present since opendir() that readdir() has not returned yet
    added,     \* entries created after opendir() that readdir() has not returned
    d_name,    \* file->d_name of the entry being processed
    target,    \* the bytes readlink() placed in char target[1024]
    index,     \* ssize_t index, the result of readlink()
    newName,   \* char *newName built by asprintf()
    links,     \* int links
    fixed,     \* int fixed
    status,    \* how the process ended: "running" until it ends
    out,       \* what the run wrote to standard output
    errs,      \* what the run wrote to standard error
    failedOp,  \* the call of this run that failed (readlink's EINVAL is no failure)
    run,       \* number of the invocation, 1 for the first
    before,    \* the directory as it was when this invocation started
    prevStatus \* exit status of the previous invocation

vars == <<fs, pc, dir, pending, added, d_name, target, index, newName, links,
          fixed, status, out, errs, failedOp, run, before, prevStatus>>

-----------------------------------------------------------------------------
(* Bounds and constants *)

\* Number of invocations of the program the model follows.
MaxRuns == 2

\* sizeof(target): char target[1024].
TargetSize == 1024

\* Names of the entries a directory may hold besides "." and "..".
Names == {"a", "b", "c"}

DotNames == {".", ".."}

AllNames == Names \cup DotNames

NoName == "<none>"

-----------------------------------------------------------------------------
(* Strings and entries *)

Min(x, y) == IF x <= y THEN x ELSE y

\* "/" followed by n-1 bytes "x": an absolute target of n bytes.
LongAbs(n) == [i \in 1..n |-> IF i = 1 THEN "/" ELSE "x"]

\* Values a byte of the buffer that readlink() did not write can have.
Bytes == {"/", "x"}

NoEntry == [kind |-> "none", target |-> <<>>]

File == [kind |-> "file", target |-> <<>>]

Dir == [kind |-> "dir", target |-> <<>>]

Link(t) == [kind |-> "link", target |-> t]

\* Exit statuses of <sysexits.h>, the status of a main() that returns, and
\* the end of a process killed by a signal.
EX_OK == "EX_OK"

EX_USAGE == "EX_USAGE"

EX_OSERR == "EX_OSERR"

SIGSEGV == "SIGSEGV"

\* A line of err()/errx(): the operation its text names and the entry
\* names its arguments put into it.
Message(op, names) == [op |-> op, names |-> names]

Entries(d) == {n \in AllNames : d[n].kind # "none"}

\* The literal "../.." of the asprintf() format.
Prefix == <<".", ".", "/", ".", ".">>

\* asprintf(&newName, "../..%s", target)
asprintf(t) == Prefix \o t

\* readlink(name, buf, bufsiz) on a symbolic link: places at most bufsiz
\* bytes of the stored target in buf, without a terminator, and returns
\* their number.
readlink(stored, bufsiz) ==
    LET n == Min(Len(stored), bufsiz)
    IN  [index |-> n, buf |-> SubSeq(stored, 1, n)]

\* The values target[0] can have after readlink() returned idx: the first
\* byte placed, or, when none was placed, whatever the array held.
FirstByte(buf, idx) == IF idx > 0 THEN {buf[1]} ELSE Bytes

-----------------------------------------------------------------------------
(* Initial state: any directory over Names, before main() runs *)

\* What an entry of Names can be at the start: a regular file (a
\* subdirectory behaves the same: readlink() fails with EINVAL) or a
\* symbolic link.
InitialEntries ==
    << File, Link(<<>>), Link(<<"x">>), Link(<<"/", "x">>),
       Link(LongAbs(TargetSize - 1)), Link(LongAbs(TargetSize)) >>

\* The code never looks at a name and readdir() may return the entries in
\* any order, so directories that differ by a renaming of their entries
\* behave alike: one directory of each such class is taken.
Init ==
    /\ \E i, j, k \in 1..Len(InitialEntries) :
         /\ i <= j
         /\ j <= k
         /\ fs = [n \in AllNames |->
                    IF n \in DotNames THEN Dir
                    ELSE IF n = "a" THEN InitialEntries[i]
                    ELSE IF n = "b" THEN InitialEntries[j]
                    ELSE InitialEntries[k]]
    /\ before = fs
    /\ pc = "opendir"
    /\ dir = "unset"
    /\ pending = {}
    /\ added = {}
    /\ d_name = NoName
    /\ target = <<>>
    /\ index = 0
    /\ newName = <<>>
    /\ links = 0
    /\ fixed = 0
    /\ status = "running"
    /\ out = <<>>
    /\ errs = <<>>
    /\ failedOp = "none"
    /\ run = 1
    /\ prevStatus = "none"

-----------------------------------------------------------------------------
(* main(), one action per call and result *)

\* DIR *dir = opendir(".") returns a stream over the entries present now.
OpendirOk ==
    /\ pc = "opendir"
    /\ dir' = "open"
    /\ pending' = Entries(fs)
    /\ added' = {}
    /\ pc' = "readdir"
    /\ UNCHANGED <<fs, d_name, target, index, newName, links, fixed, status,
                   out, errs, failedOp, run, before, prevStatus>>

\* opendir(".") returns NULL; main() does not test it.
OpendirFail ==
    /\ pc = "opendir"
    /\ dir' = "NULL"
    /\ failedOp' = "opendir"
    /\ pc' = "readdir"
    /\ UNCHANGED <<fs, pending, added, d_name, target, index, newName, links,
                   fixed, status, out, errs, run, before, prevStatus>>

\* readdir(dir) returns an entry: one present since opendir() and not yet
\* returned, or one created since (whether those are returned is
\* unspecified).  The loop body declares a fresh target[].
ReaddirEntry ==
    /\ pc = "readdir"
    /\ dir = "open"
    /\ \E n \in pending \cup added :
         /\ d_name' = n
         /\ pending' = pending \ {n}
         /\ added' = added \ {n}
    /\ target' = <<>>
    /\ index' = 0
    /\ pc' = "readlink"
    /\ UNCHANGED <<fs, dir, newName, links, fixed, status, out, errs,
                   failedOp, run, before, prevStatus>>

\* readdir(dir) returns NULL at the end of the directory: every entry
\* present since opendir() has been returned.
ReaddirEnd ==
    /\ pc = "readdir"
    /\ dir = "open"
    /\ pending = {}
    /\ pc' = "closedir"
    /\ UNCHANGED <<fs, dir, pending, added, d_name, target, index, newName,
                   links, fixed, status, out, errs, failedOp, run, before,
                   prevStatus>>

\* readdir(dir) fails: it returns NULL with errno set, which the loop
\* condition does not tell from the end of the directory.
ReaddirFail ==
    /\ pc = "readdir"
    /\ dir = "open"
    /\ failedOp' = "readdir"
    /\ pc' = "closedir"
    /\ UNCHANGED <<fs, dir, pending, added, d_name, target, index, newName,
                   links, fixed, status, out, errs, run, before, prevStatus>>

\* readdir(NULL) after a failed opendir(): undefined.  The C library either
\* dereferences the pointer and the process dies, or rejects it and
\* returns NULL.
ReaddirNull ==
    /\ pc = "readdir"
    /\ dir = "NULL"
    /\ \/ /\ status' = SIGSEGV
          /\ pc' = "exit"
       \/ /\ status' = status
          /\ pc' = "closedir"
    /\ UNCHANGED <<fs, dir, pending, added, d_name, target, index, newName,
                   links, fixed, out, errs, failedOp, run, before, prevStatus>>

Readdir == ReaddirEntry \/ ReaddirEnd \/ ReaddirFail \/ ReaddirNull

\* target[0] == '/'
IsAbsolute(b) == b = "/"

\* readlink() fails with EINVAL, the entry is not a symbolic link: continue.
ReadlinkNotLink ==
    /\ pc = "readlink"
    /\ fs[d_name].kind \in {"file", "dir"}
    /\ pc' = "readdir"
    /\ UNCHANGED <<fs, dir, pending, added, d_name, target, index, newName,
                   links, fixed, status, out, errs, failedOp, run, before,
                   prevStatus>>

\* ReadlinkFail as it would be if the message were a warning: the loop goes
\* on to the next entry.
ReadlinkFailContinue ==
    /\ pc = "readlink"
    /\ failedOp' = "readlink"
    /\ errs' = Append(errs, Message("readlink", {d_name}))
    /\ pc' = "readdir"
    /\ UNCHANGED <<fs, dir, pending, added, d_name, target, index, newName,
                   links, fixed, status, out, run, before, prevStatus>>

\* readlink() fails with another error:
\* err(EX_OSERR, "error in readlink('%s')", file->d_name).
ReadlinkFail ==
    /\ pc = "readlink"
    /\ failedOp' = "readlink"
    /\ errs' = Append(errs, Message("readlink", {d_name}))
    /\ status' = EX_OSERR
    /\ pc' = "exit"
    /\ UNCHANGED <<fs, dir, pending, added, d_name, target, index, newName,
                   links, fixed, out, run, before, prevStatus>>

\* readlink() succeeds: links++, then the test of target[0]; for an
\* absolute target, target[index] = 0 and asprintf() build newName.
ReadlinkOk ==
    /\ pc = "readlink"
    /\ fs[d_name].kind = "link"
    /\ LET r == readlink(fs[d_name].target, TargetSize - 1)
       IN  /\ index' = r.index
           /\ target' = r.buf
           /\ links' = links + 1
           /\ \E b \in FirstByte(r.buf, r.index) :
                IF IsAbsolute(b)
                THEN /\ newName' = asprintf(r.buf)
                     /\ pc' = "unlink"
                ELSE /\ newName' = newName
                     /\ pc' = "readdir"
    /\ UNCHANGED <<fs, dir, pending, added, d_name, fixed, status, out, errs,
                   failedOp, run, before, prevStatus>>

Readlink == ReadlinkNotLink \/ ReadlinkFail \/ ReadlinkOk

\* unlink(file->d_name) succeeds.
UnlinkOk ==
    /\ pc = "unlink"
    /\ fs' = [fs EXCEPT ![d_name] = NoEntry]
    /\ pc' = "symlink"
    /\ UNCHANGED <<dir, pending, added, d_name, target, index, newName, links,
                   fixed, status, out, errs, failedOp, run, before, prevStatus>>

\* UnlinkFail as it would be if the result of unlink() were not tested:
\* main() goes on to symlink().
UnlinkFailIgnored ==
    /\ pc = "unlink"
    /\ failedOp' = "unlink"
    /\ pc' = "symlink"
    /\ UNCHANGED <<fs, dir, pending, added, d_name, target, index, newName,
                   links, fixed, status, out, errs, run, before, prevStatus>>

\* unlink() fails: err(EX_OSERR, "Failed to remove old link").
UnlinkFail ==
    /\ pc = "unlink"
    /\ failedOp' = "unlink"
    /\ errs' = Append(errs, Message("unlink", {}))
    /\ status' = EX_OSERR
    /\ pc' = "exit"
    /\ UNCHANGED <<fs, dir, pending, added, d_name, target, index, newName,
                   links, fixed, out, run, before, prevStatus>>

Unlink == UnlinkOk \/ UnlinkFail

\* symlink(newName, file->d_name) succeeds; free(newName); fixed++.
SymlinkOk ==
    /\ pc = "symlink"
    /\ fs' = [fs EXCEPT ![d_name] = Link(newName)]
    /\ added' = added \cup {d_name}
    /\ newName' = <<>>
    /\ fixed' = fixed + 1
    /\ pc' = "readdir"
    /\ UNCHANGED <<dir, pending, d_name, target, index, links, status, out,
                   errs, failedOp, run, before, prevStatus>>

\* symlink() fails: err(EX_OSERR, "Failed to create link").
SymlinkFail ==
    /\ pc = "symlink"
    /\ failedOp' = "symlink"
    /\ errs' = Append(errs, Message("symlink", {}))
    /\ status' = EX_OSERR
    /\ pc' = "exit"
    /\ UNCHANGED <<fs, dir, pending, added, d_name, target, index, newName,
                   links, fixed, out, run, before, prevStatus>>

Symlink == SymlinkOk \/ SymlinkFail

\* closedir(dir); links == 0: errx(EX_USAGE, "no symbolic links in %s", cwd).
ReportUsage ==
    /\ pc = "closedir"
    /\ links = 0
    /\ errs' = Append(errs, Message("none", {}))
    /\ status' = EX_USAGE
    /\ pc' = "exit"
    /\ UNCHANGED <<fs, dir, pending, added, d_name, target, index, newName,
                   links, fixed, out, failedOp, run, before, prevStatus>>

\* closedir(dir); printf("fixed %d/%d symbolic links", fixed, links); main()
\* returns.
ReportFixed ==
    /\ pc = "closedir"
    /\ links # 0
    /\ out' = Append(out, [fixed |-> fixed, links |-> links])
    /\ status' = EX_OK
    /\ pc' = "exit"
    /\ UNCHANGED <<fs, dir, pending, added, d_name, target, index, newName,
                   links, fixed, errs, failedOp, run, before, prevStatus>>

Report == ReportUsage \/ ReportFixed

\* After a run that ended in success the program is started again in the
\* same directory: main() begins with fresh locals and fresh output streams.
Rerun ==
    /\ pc = "exit"
    /\ status = EX_OK
    /\ run < MaxRuns
    /\ run' = run + 1
    /\ prevStatus' = status
    /\ before' = fs
    /\ pc' = "opendir"
    /\ dir' = "unset"
    /\ pending' = {}
    /\ added' = {}
    /\ d_name' = NoName
    /\ target' = <<>>
    /\ index' = 0
    /\ newName' = <<>>
    /\ links' = 0
    /\ fixed' = 0
    /\ status' = "running"
    /\ out' = <<>>
    /\ errs' = <<>>
    /\ failedOp' = "none"
    /\ UNCHANGED fs

Next ==
    \/ OpendirOk
    \/ OpendirFail
    \/ Readdir
    \/ Readlink
    \/ Unlink
    \/ Symlink
    \/ Report
    \/ Rerun

Spec == Init /\ [][Next]_vars

-----------------------------------------------------------------------------
(* Properties *)

\* The stored target of a symbolic link begins with '/'.
AbsLink(e) == e.kind = "link" /\ Len(e.target) > 0 /\ e.target[1] = "/"

\* A symbolic link whose stored target does not begin with '/'.
RelLink(e) == e.kind = "link" /\ ~AbsLink(e)

\* C1: whenever the rewrite of an entry whose stored target T is absolute
\* completes, the entry is a symbolic link to "../.." followed by all of T,
\* whatever the length of T.
C1_TargetVerbatim ==
    [][(pc = "symlink" /\ pc' = "readdir" /\ AbsLink(before[d_name]))
         => fs'[d_name] = Link(<<".", ".", "/", ".", ".">> \o before[d_name].target)]_vars

\* C2: when a run has ended in success, no symbolic link of the directory
\* has a target that begins with '/'.
C2_Exhaustive ==
    (pc = "exit" /\ status = EX_OK)
        => \A n \in AllNames : ~AbsLink(fs[n])

\* C3: in every state of a run, 0 <= fixed <= links <= the number of entries
\* of the directory ("." and ".." included).
C3_Counting ==
    /\ 0 <= fixed
    /\ fixed <= links
    /\ links <= Cardinality(Entries(before))

\* C4: a run that follows a run that ended in success ends with fixed = 0
\* and with every entry as it was when that run started.
C4_Idempotent ==
    (run > 1 /\ prevStatus = EX_OK /\ pc = "exit")
        => (fixed = 0 /\ fs = before)

\* C5: an entry that was a symbolic link with a target not beginning with
\* '/' when the run started keeps that target in every step of the run, and
\* the step that reads it adds one to links, leaves fixed alone and goes on
\* to the next entry without unlink() or symlink().
C5_RelativeUntouched ==
    [][run' = run =>
         \A n \in Names :
           RelLink(before[n]) =>
             /\ fs'[n] = before[n]
             /\ (pc = "readlink" /\ d_name = n /\ pc' # "exit")
                  => (links' = links + 1 /\ fixed' = fixed /\ pc' = "readdir")]_vars

\* C6: from the step in which readlink() fails with an error other than
\* EINVAL, the run is over with the OS-error status: no further entry is
\* returned by the enumeration, no entry of the directory changes, the
\* counters stay, and standard output stays empty.
C6_AbortOnReadFailure ==
    [][(failedOp' = "readlink" /\ run' = run)
         => /\ pc' = "exit"
            /\ status' = EX_OSERR
            /\ out' = <<>>
            /\ UNCHANGED <<fs, pending, added, links, fixed>>]_vars

\* C6 witness: readlink() failed while an absolute link was still to be
\* returned by the enumeration, after another link had been rewritten.
C6_Witness ==
    /\ pc = "exit"
    /\ failedOp = "readlink"
    /\ fixed > 0
    /\ \E n \in pending : AbsLink(fs[n])

\* No symbolic link is in the directory.
NoLinks(d) == \A n \in AllNames : d[n].kind # "link"

\* C7: every run that has ended has one of the three statuses success,
\* usage error and OS error, which differ from each other; a run over a
\* directory without symbolic links ends in usage error with links = 0, no
\* entry changed and nothing on standard output.
C7_ZeroLinks ==
    pc = "exit" =>
        /\ status \in {EX_OK, EX_USAGE, EX_OSERR}
        /\ EX_USAGE # EX_OK
        /\ EX_USAGE # EX_OSERR
        /\ NoLinks(before)
             => (status = EX_USAGE /\ links = 0 /\ fs = before /\ out = <<>>)

\* C8: a run in which opendir(), readdir(), readlink() (other than with
\* EINVAL), unlink() or symlink() failed ends with the OS-error status.
C8_NoErrorSwallowed ==
    (pc = "exit" /\ failedOp # "none") => status = EX_OSERR

\* C9: a run that ended with the OS-error status wrote one message, which
\* names the operation that failed and the entry it failed on.
C9_ErrorNamesEntry ==
    status = EX_OSERR =>
        /\ Len(errs) = 1
        /\ errs[1].op = failedOp
        /\ d_name \in errs[1].names

\* C10: within a run an entry only disappears by the unlink() of the
\* current symbolic link, and an entry only appears as a symbolic link under
\* the current name after that unlink(); fixed grows by one exactly in the
\* step that creates the link; a failed unlink() ends the run with the
\* OS-error status and the directory unchanged, without a symlink(); a failed
\* symlink() ends the run with the OS-error status, the current name absent
\* and the other entries unchanged.
C10_RemoveThenCreate ==
    [][run' = run =>
         /\ \A n \in AllNames :
              /\ (fs'[n] # fs[n] /\ fs'[n].kind = "none")
                   => /\ pc = "unlink"
                      /\ n = d_name
                      /\ fs[n].kind = "link"
                      /\ pc' = "symlink"
                      /\ fixed' = fixed
              /\ (fs'[n] # fs[n] /\ fs'[n].kind # "none")
                   => /\ pc = "symlink"
                      /\ n = d_name
                      /\ fs[n].kind = "none"
                      /\ fs'[n].kind = "link"
                      /\ fixed' = fixed + 1
         /\ fixed' # fixed
              => /\ pc = "symlink"
                 /\ fixed' = fixed + 1
                 /\ fs[d_name].kind = "none"
                 /\ fs'[d_name].kind = "link"
         /\ pc' = "symlink" => fs'[d_name].kind = "none"
         /\ (pc = "unlink" /\ fs' = fs)
              => (pc' = "exit" /\ status' = EX_OSERR /\ failedOp' = "unlink")
         /\ (pc = "symlink" /\ fs' = fs)
              => /\ pc' = "exit"
                 /\ status' = EX_OSERR
                 /\ failedOp' = "symlink"
                 /\ fs'[d_name].kind = "none"]_vars

\* C10 witness: symlink() failed after the unlink() of an absolute link: the
\* run is over with the OS-error status and the name is absent.
C10_Witness ==
    /\ pc = "exit"
    /\ failedOp = "symlink"
    /\ status = EX_OSERR
    /\ AbsLink(before[d_name])
    /\ fs[d_name].kind = "none"
    /\ \A n \in AllNames \ {d_name} : fs[n].kind # "none"

====
